---- MODULE Spec2Model ----
(***************************************************************************)
(* WhatsApp realtime checker: the single lookup (checkNumber), the batch   *)
(* runner (checkMultipleNumbers) and the statistics reducer                *)
(* (getStatistics) of the JavaScript (browser and Node), Go, PHP, C# and   *)
(* Java clients, run against an endpoint that may answer anything; the     *)
(* formatter (formatResult) and the program main() of the Node and Go      *)
(* clients.                                                                *)
(***************************************************************************)
EXTENDS Integers, Sequences, FiniteSets

VARIABLES
  lang,         \* the client that runs
  mode,         \* "single": one checkNumber call; "batch": checkMultipleNumbers;
                \* "file": the shell's check_multiple_from_file; "ui": the
                \* browser page
  stub,         \* "any": the endpoint answers anything; "alternate": OK, FAIL, OK, ...;
                \* "some": a found number, a page that is not JSON, the
                \* JSON null, or HTTP 500
  numbersData,  \* the request list
  delay,        \* the pacing delay in milliseconds
  pc,           \* where the caller stands
  i,            \* the loop index (1-based)
  results,      \* the outcome list
  sent,         \* the payloads posted so far
  inflight,     \* the number of lookups posted and not yet completed
  rets,         \* how each checkNumber call ended
  answers,      \* what the endpoint answered to each checkNumber call
  events,       \* the observable events: lookup call, outcome recorded, delay wait
  stats,        \* what getStatistics returned
  formatted,    \* what formatResult gave for the single lookup's response
  inMain,       \* TRUE when the calls are those of the program's main()
  single,       \* how main()'s single check ended
  exitCode,     \* the exit code of the process main() runs in
  statCalls,    \* how many times getStatistics was called on the list
  counters,     \* the shell runner's total_lines and its four counters
  arithExits,   \* the shell ends under set -e when ((expr)) evaluates to 0
  read,         \* what the page's last click handler read from the fields
  clicks,       \* the page's clicks so far: check started or input refused
  tasks,        \* the checks the page started, in the order of their start
  statusLine,   \* the page's status line
  panel         \* the page's results panel

vars == <<lang, mode, stub, numbersData, delay, pc, i, results, sent,
          inflight, rets, answers, events, stats, formatted, inMain,
          single, exitCode, statCalls, counters, arithExits, read, clicks,
          tasks, statusLine, panel>>

\* The variables of the browser page.
uiVars == <<read, clicks, tasks, statusLine, panel>>

\* The variables of the shell script's batch runner.
shellVars == <<counters, arithExits>>

\* The variables the clients' library calls and main() leave alone.
otherVars == <<shellVars, uiVars>>

\* The variables of main() and of the formatter.
processVars == <<formatted, inMain, single, exitCode>>

\* Longest request list of the unconstrained batches.
MaxBatch == 2

\* Most calls of getStatistics on one outcome list.
MaxStatCalls == 2

\* A field, argument or value that is missing (null, undefined, nil).
Absent == "<absent>"

Langs == {"js", "node", "go", "php", "cs", "java"}

\* The shell script, whose check_number is run on its own.
ShellLang == "sh"

(***************************************************************************)
(* Requests                                                                *)
(***************************************************************************)
CallbackUrl == "https://example.com/callback"

\* The inputs of the lookups: lower- and upper-case countries, and a
\* callback that is missing, the empty string, or a URL.
Requests ==
  { [number |-> "628138800001",  country |-> "id", callback |-> Absent],
    [number |-> "5511999999999", country |-> "BR", callback |-> ""],
    [number |-> "5215555555555", country |-> "mx", callback |-> CallbackUrl] }

\* Inputs the local format checks turn down: a number of 5 digits and a
\* country that is not in the supported list.
OddRequests ==
  { [number |-> "12345",        country |-> "ID", callback |-> Absent],
    [number |-> "628138800001", country |-> "zz", callback |-> Absent] }

\* The list main() checks.
numbersToCheck ==
  << [number |-> "628138800001",  country |-> "ID", callback |-> Absent],
     [number |-> "5511999999999", country |-> "BR", callback |-> Absent],
     [number |-> "5215555555555", country |-> "MX", callback |-> Absent],
     [number |-> "919876543210",  country |-> "IN", callback |-> Absent] >>

\* The pacing delay main() passes.
DefaultDelay == 1000

\* A client that sends the country as it was given.
toUpperCaseOmitted(s) == s

\* country.toUpperCase(), strings.ToUpper, strtoupper, ToUpper, ${country^^}.
toUpperCase(s) ==
  CASE s = "id" -> "ID"
    [] s = "br" -> "BR"
    [] s = "mx" -> "MX"
    [] s = "in" -> "IN"
    [] s = "zz" -> "ZZ"
    [] OTHER    -> s

\* The number of digits of a number, after number.replace(/\D/g, '') or
\* ${number//[^0-9]/}.
DigitCount(number) ==
  CASE number = "628138800001"  -> 12
    [] number = "5511999999999" -> 13
    [] number = "5215555555555" -> 13
    [] number = "919876543210"  -> 12
    [] number = "12345"         -> 5

\* validate_phone_number, validatePhoneNumber.
validatePhoneNumber(number) ==
  DigitCount(number) >= 8 /\ DigitCount(number) <= 15

supportedCountries == {"BR", "MX", "NG", "IN", "ID", "US", "CA", "GB", "DE", "FR"}

\* validate_country_code, validateCountryCode.
validateCountryCode(country) == toUpperCase(country) \in supportedCountries

\* The format checks checkNumber makes before it sends: the shell's
\* check_number returns 1 on a failed check, the other clients make none.
PassesValidation(l, req) ==
  IF l = ShellLang
    THEN validatePhoneNumber(req.number) /\ validateCountryCode(req.country)
    ELSE TRUE

\* Whether the client adds the callback field to the form.
SendsCallback(l, callback) ==
  CASE l \in {"js", "node"} -> callback # Absent /\ callback # ""
    [] l = "go"             -> callback # Absent /\ callback # ""
    [] l = "php"            -> callback # Absent
    [] l = "cs"             -> callback # Absent /\ callback # ""
    [] l = "java"           -> callback # Absent /\ callback # ""
    [] l = ShellLang        -> callback # Absent /\ callback # ""

\* The form fields of the POST body.
BuildPayload(l, req) ==
  [ number      |-> req.number,
    country     |-> toUpperCase(req.country),
    hasCallback |-> SendsCallback(l, req.callback),
    callback    |-> IF SendsCallback(l, req.callback) THEN req.callback ELSE Absent ]

(***************************************************************************)
(* The endpoint's answers                                                  *)
(***************************************************************************)
BodyYes     == "{\"status\":\"OK\",\"message\":{\"number\":\"+628138800001\",\"whatsapp\":\"yes\"},\"transactionId\":\"tphxc6te38gpcoyk8hkvwc\"}"
BodyNo      == "{\"status\":\"OK\",\"message\":{\"number\":\"+628138800001\",\"whatsapp\":\"no\"},\"transactionId\":\"tphxc6te38gpcoyk8hkvwc\"}"
BodyMaybe   == "{\"status\":\"OK\",\"message\":{\"whatsapp\":\"maybe\"}}"
BodyNoMsg   == "{\"status\":\"OK\",\"transactionId\":\"tphxc6te38gpcoyk8hkvwc\"}"
BodyNoTxn   == "{\"status\":\"OK\",\"message\":{\"number\":\"+628138800001\",\"whatsapp\":\"yes\"}}"
BodyFail    == "{\"status\":\"FAIL\"}"
BodyOther   == "{\"status\":\"PENDING\"}"
BodyEmpty   == "{}"
BodyNull    == "null"
BodyHtml    == "<html>Bad Gateway</html>"

Bodies == {BodyYes, BodyNo, BodyMaybe, BodyNoMsg, BodyNoTxn, BodyFail,
           BodyOther, BodyEmpty, BodyNull, BodyHtml}

\* A parsed JSON document, or no document.
JsonValue(kind, status, hasMessage, number, whatsapp, transactionId) ==
  [ kind |-> kind, status |-> status, hasMessage |-> hasMessage,
    number |-> number, whatsapp |-> whatsapp, transactionId |-> transactionId ]

NoValue   == JsonValue("none", Absent, FALSE, Absent, Absent, Absent)
NullValue == JsonValue("null", Absent, FALSE, Absent, Absent, Absent)
TextValue == JsonValue("text", Absent, FALSE, Absent, Absent, Absent)

\* JSON.parse / json_decode / json.Unmarshal / Deserialize / fromJson of the
\* raw body: kind "invalid" when the text is not JSON.
JsonParse(raw) ==
  CASE raw = BodyYes   -> JsonValue("object", "OK", TRUE, "+628138800001", "yes", "tphxc6te38gpcoyk8hkvwc")
    [] raw = BodyNo    -> JsonValue("object", "OK", TRUE, "+628138800001", "no", "tphxc6te38gpcoyk8hkvwc")
    [] raw = BodyMaybe -> JsonValue("object", "OK", TRUE, Absent, "maybe", Absent)
    [] raw = BodyNoMsg -> JsonValue("object", "OK", FALSE, Absent, Absent, "tphxc6te38gpcoyk8hkvwc")
    [] raw = BodyNoTxn -> JsonValue("object", "OK", TRUE, "+628138800001", "yes", Absent)
    [] raw = BodyFail  -> JsonValue("object", "FAIL", FALSE, Absent, Absent, Absent)
    [] raw = BodyOther -> JsonValue("object", "PENDING", FALSE, Absent, Absent, Absent)
    [] raw = BodyEmpty -> JsonValue("object", Absent, FALSE, Absent, Absent, Absent)
    [] raw = BodyNull  -> NullValue
    [] OTHER           -> JsonValue("invalid", Absent, FALSE, Absent, Absent, Absent)

\* HTTP status of an answer; NoAnswer stands for a network failure or timeout.
NoAnswer == 0
HttpOk   == 200

Replies ==
  { [http |-> NoAnswer, body |-> ""] }
    \cup { [http |-> HttpOk, body |-> b] : b \in Bodies }
    \cup { [http |-> 201, body |-> BodyYes],
           [http |-> 500, body |-> BodyHtml],
           [http |-> 500, body |-> BodyFail] }

\* The entry of a call that sent nothing.
NotSent == [http |-> -1, body |-> Absent]

\* response.ok, axios validateStatus, EnsureSuccessStatusCode.
Is2xx(http) == http >= 200 /\ http <= 299

(***************************************************************************)
(* checkNumber                                                             *)
(***************************************************************************)
\* An error: its message text, and the status code and raw body the message
\* carries (Absent when the message does not carry it).
Error(text, code, body) == [text |-> text, code |-> code, body |-> body]

NoError == Error(Absent, NoAnswer, Absent)

\* How a call ends: "return" with a value, "throw" with an exception the
\* language's catch-all handler catches, or "fatal" with one it does not.
Return(v)   == [kind |-> "return", resp |-> v,       err |-> NoError]
Throw(e)    == [kind |-> "throw",  resp |-> NoValue, err |-> e]
Fatal(e)    == [kind |-> "fatal",  resp |-> NoValue, err |-> e]

\* The shell runner's counters when the shell runner does not run.
NoCounters == [ total_lines |-> -1, success_count |-> -1, error_count |-> -1,
                whatsapp_yes |-> -1, whatsapp_no |-> -1 ]

\* A call that was not made.
NotCalled   == [kind |-> "none",   resp |-> NoValue, err |-> NoError]

\* Decoding a JSON object into a typed record: a missing string field gets
\* the type's default value.
StructDecode(v, default) ==
  LET fill(x) == IF x = Absent THEN default ELSE x
  IN  JsonValue("object", fill(v.status), v.hasMessage,
                IF v.hasMessage THEN fill(v.number) ELSE Absent,
                IF v.hasMessage THEN fill(v.whatsapp) ELSE Absent,
                fill(v.transactionId))

\* Browser: fetch, response.ok, response.json().
checkNumberBrowser(reply) ==
  IF reply.http = NoAnswer
    THEN Throw(Error("Failed to fetch", NoAnswer, Absent))
  ELSE IF ~Is2xx(reply.http)
    THEN Throw(Error("HTTP error! status", reply.http, Absent))
  ELSE IF JsonParse(reply.body).kind = "invalid"
    THEN Throw(Error("SyntaxError", NoAnswer, Absent))
  ELSE Return(JsonParse(reply.body))

\* Node: axios post, response.data (the raw text when it is not JSON).
checkNumberNode(reply) ==
  IF reply.http = NoAnswer
    THEN Throw(Error("Network Error", NoAnswer, Absent))
  ELSE IF ~Is2xx(reply.http)
    THEN Throw(Error("HTTP error! status, message", reply.http, reply.body))
  ELSE IF JsonParse(reply.body).kind = "invalid"
    THEN Return(TextValue)
  ELSE Return(JsonParse(reply.body))

\* Go: httpClient.Do, StatusOK, json.Unmarshal into WhatsAppResponse.
CheckNumberGo(reply) ==
  IF reply.http = NoAnswer
    THEN Throw(Error("request failed", NoAnswer, Absent))
  ELSE IF reply.http # HttpOk
    THEN Throw(Error("HTTP error", reply.http, reply.body))
  ELSE IF JsonParse(reply.body).kind = "invalid"
    THEN Throw(Error("failed to decode response", NoAnswer, Absent))
  ELSE Return(StructDecode(JsonParse(reply.body), ""))

\* PHP: curl_exec, 200, json_decode; the declared return type is array, and
\* returning null raises a TypeError, which is not an Exception.
checkNumberPhp(reply) ==
  IF reply.http = NoAnswer
    THEN Throw(Error("cURL error", NoAnswer, Absent))
  ELSE IF reply.http # HttpOk
    THEN Throw(Error("HTTP error", reply.http, reply.body))
  ELSE IF JsonParse(reply.body).kind = "invalid"
    THEN Throw(Error("JSON decode error", NoAnswer, Absent))
  ELSE IF JsonParse(reply.body).kind = "null"
    THEN Fatal(Error("TypeError", NoAnswer, Absent))
  ELSE Return(JsonParse(reply.body))

\* C#: PostAsync, EnsureSuccessStatusCode, JsonSerializer.Deserialize.
CheckNumberAsync(reply) ==
  IF reply.http = NoAnswer
    THEN Throw(Error("Request failed", NoAnswer, Absent))
  ELSE IF ~Is2xx(reply.http)
    THEN Throw(Error("Request failed", reply.http, Absent))
  ELSE IF JsonParse(reply.body).kind = "invalid"
    THEN Throw(Error("JSON parsing error", NoAnswer, Absent))
  ELSE IF JsonParse(reply.body).kind = "null"
    THEN Return(NullValue)
  ELSE Return(StructDecode(JsonParse(reply.body), ""))

\* Java: sendAsync, statusCode 200, gson.fromJson.
checkNumberJava(reply) ==
  IF reply.http = NoAnswer
    THEN Throw(Error("ExecutionException", NoAnswer, Absent))
  ELSE IF reply.http # HttpOk
    THEN Throw(Error("HTTP error", reply.http, reply.body))
  ELSE IF JsonParse(reply.body).kind = "invalid"
    THEN Throw(Error("JsonSyntaxException", NoAnswer, Absent))
  ELSE IF JsonParse(reply.body).kind = "null"
    THEN Return(NullValue)
  ELSE Return(StructDecode(JsonParse(reply.body), Absent))

\* Shell: curl --write-out http_code, -ne 200, echo of the body as it is.
check_number(reply) ==
  IF reply.http # HttpOk
    THEN Throw(Error("HTTP error", reply.http, reply.body))
  ELSE IF JsonParse(reply.body).kind = "invalid"
    THEN Return(TextValue)
  ELSE Return(JsonParse(reply.body))

checkNumber(l, reply) ==
  CASE l = "js"   -> checkNumberBrowser(reply)
    [] l = "node" -> checkNumberNode(reply)
    [] l = "go"   -> CheckNumberGo(reply)
    [] l = "php"  -> checkNumberPhp(reply)
    [] l = "cs"   -> CheckNumberAsync(reply)
    [] l = "java" -> checkNumberJava(reply)
    [] l = ShellLang -> check_number(reply)

(***************************************************************************)
(* formatResult                                                            *)
(***************************************************************************)
\* The formatter's result: the pieces of the line it returns, in order, and
\* the value it serialises into the line, if any; or the error it throws.
FormatLine(number, whatsappStatus, transactionId) ==
  [ kind |-> "line",
    text |-> <<"Number: ", number, ", WhatsApp: ", whatsappStatus,
               ", Transaction ID: ", transactionId>>,
    json |-> NoValue ]

FormatError(status, result) ==
  [ kind |-> "line", text |-> <<"Status: ", status, ", Error: ">>,
    json |-> result ]

FormatThrow  == [kind |-> "throw", text |-> <<>>, json |-> NoValue]
NotFormatted == [kind |-> "none",  text |-> <<>>, json |-> NoValue]

\* x || d: d replaces a missing or empty x.
OrElse(x, d) == IF x = Absent \/ x = "" THEN d ELSE x

\* x ?? d, x != null ? x : d, jq's x // d: d replaces a missing x.
Coalesce(x, d) == IF x = Absent THEN d ELSE x

\* JavaScript formatResult that prints the transaction id as it is.
formatResultJsNoDefault(result) ==
  IF result.kind = "null"
    THEN FormatThrow
  ELSE IF result.status = "OK"
    THEN FormatLine(OrElse(result.number, "Unknown"),
                    OrElse(result.whatsapp, "Unknown"),
                    IF result.transactionId = Absent THEN "undefined"
                    ELSE result.transactionId)
  ELSE FormatError(OrElse(result.status, "Unknown"), result)

\* JavaScript (browser and Node): result.status of null throws; message
\* defaults to {}, and || fills the three fields.
formatResultJs(result) ==
  IF result.kind = "null"
    THEN FormatThrow
  ELSE IF result.status = "OK"
    THEN FormatLine(OrElse(result.number, "Unknown"),
                    OrElse(result.whatsapp, "Unknown"),
                    OrElse(result.transactionId, "N/A"))
  ELSE FormatError(OrElse(result.status, "Unknown"), result)

\* Go: the line needs result.Message != nil; empty strings are filled.
FormatResultGo(result) ==
  IF result.status = "OK" /\ result.hasMessage
    THEN FormatLine(OrElse(result.number, "Unknown"),
                    OrElse(result.whatsapp, "Unknown"),
                    OrElse(result.transactionId, "N/A"))
  ELSE FormatError(result.status, result)

\* PHP, C#, Java: the line needs the message to be set; ?? and != null
\* fill the fields that are missing.
formatResultIsset(result) ==
  IF result.kind = "null"
    THEN FormatThrow
  ELSE IF result.status = "OK" /\ result.hasMessage
    THEN FormatLine(Coalesce(result.number, "Unknown"),
                    Coalesce(result.whatsapp, "Unknown"),
                    Coalesce(result.transactionId, "N/A"))
  ELSE FormatError(Coalesce(result.status, "Unknown"), result)

\* Shell: jq reads the fields; on a body that is not JSON jq prints nothing
\* and the status is the empty string.
format_result(result) ==
  IF result.kind = "text"
    THEN FormatError("", result)
  ELSE IF Coalesce(result.status, "Unknown") = "OK"
    THEN FormatLine(Coalesce(result.number, "Unknown"),
                    Coalesce(result.whatsapp, "Unknown"),
                    Coalesce(result.transactionId, "N/A"))
  ELSE FormatError(Coalesce(result.status, "Unknown"), result)

formatResult(l, result) ==
  CASE l \in {"js", "node"}         -> formatResultJs(result)
    [] l = "go"                     -> FormatResultGo(result)
    [] l \in {"php", "cs", "java"}  -> formatResultIsset(result)
    [] l = ShellLang                -> format_result(result)

(***************************************************************************)
(* Outcomes and getStatistics                                              *)
(***************************************************************************)
\* One entry of the result list.
SuccessOutcome(data, result) ==
  [input |-> data, success |-> TRUE, result |-> result, error |-> NoError]

FailureOutcome(data, e) ==
  [input |-> data, success |-> FALSE, result |-> NoValue, error |-> e]

Statistics(threw, total, successful, failed, yes, no) ==
  [ threw |-> threw, total |-> total, successful |-> successful,
    failed |-> failed, whatsappYes |-> yes, whatsappNo |-> no ]

NoStatistics == [ threw |-> FALSE, total |-> -1, successful |-> -1,
                  failed |-> -1, whatsappYes |-> -1, whatsappNo |-> -1 ]

\* results.filter(...).length, given the positions the filter keeps.
FilterLength(kept) == Cardinality(kept)

\* A reducer that takes only the responses of status OK for successes.
getStatisticsJsOkOnly(rs) ==
  LET successful == FilterLength({k \in 1..Len(rs) :
                        rs[k].success /\ rs[k].result.status = "OK"})
  IN  Statistics(FALSE, Len(rs), successful, Len(rs) - successful, 0, 0)

\* JavaScript: three filters; r.result.message of a null result throws.
getStatisticsJs(rs) ==
  LET successful == FilterLength({k \in 1..Len(rs) : rs[k].success})
      failed     == Len(rs) - successful
      yes == FilterLength({k \in 1..Len(rs) :
                 rs[k].success /\ rs[k].result.hasMessage
                   /\ rs[k].result.whatsapp = "yes"})
      no  == FilterLength({k \in 1..Len(rs) :
                 rs[k].success /\ rs[k].result.hasMessage
                   /\ rs[k].result.whatsapp = "no"})
  IN  IF \E k \in 1..Len(rs) : rs[k].success /\ rs[k].result.kind = "null"
        THEN Statistics(TRUE, -1, -1, -1, -1, -1)
        ELSE Statistics(FALSE, Len(rs), successful, failed, yes, no)

\* Go: one loop with a counter per branch.
RECURSIVE GetStatisticsGoLoop(_, _, _)
GetStatisticsGoLoop(rs, k, st) ==
  IF k > Len(rs) THEN st
  ELSE LET r == rs[k]
           counted == r.result.kind = "object" /\ r.result.hasMessage
       IN  GetStatisticsGoLoop(rs, k + 1,
             IF r.success
               THEN [st EXCEPT !.successful = @ + 1,
                       !.whatsappYes = IF counted /\ r.result.whatsapp = "yes"
                                         THEN @ + 1 ELSE @,
                       !.whatsappNo  = IF counted /\ r.result.whatsapp = "no"
                                         THEN @ + 1 ELSE @]
               ELSE [st EXCEPT !.failed = @ + 1])

GetStatisticsGo(rs) ==
  GetStatisticsGoLoop(rs, 1, Statistics(FALSE, Len(rs), 0, 0, 0, 0))

\* PHP, C#, Java: one loop counting the successes, failed = total - successful;
\* a null result or a missing message is skipped.
RECURSIVE GetStatisticsLoop(_, _, _)
GetStatisticsLoop(rs, k, st) ==
  IF k > Len(rs) THEN [st EXCEPT !.failed = Len(rs) - st.successful]
  ELSE LET r == rs[k]
           counted == r.result.kind = "object" /\ r.result.hasMessage
       IN  GetStatisticsLoop(rs, k + 1,
             IF r.success
               THEN [st EXCEPT !.successful = @ + 1,
                       !.whatsappYes = IF counted /\ r.result.whatsapp = "yes"
                                         THEN @ + 1 ELSE @,
                       !.whatsappNo  = IF counted /\ r.result.whatsapp = "no"
                                         THEN @ + 1 ELSE @]
               ELSE st)

getStatisticsCounted(rs) ==
  GetStatisticsLoop(rs, 1, Statistics(FALSE, Len(rs), 0, 0, 0, 0))

\* A reducer that keeps running totals: each call adds the list's counts
\* to what the call before it returned.
getStatisticsRunning(l, rs) ==
  LET now == CASE l \in {"js", "node"} -> getStatisticsJs(rs)
               [] l = "go"             -> GetStatisticsGo(rs)
               [] OTHER                -> getStatisticsCounted(rs)
  IN  IF stats = NoStatistics \/ stats.threw \/ now.threw THEN now
      ELSE Statistics(FALSE, stats.total + now.total,
                      stats.successful + now.successful,
                      stats.failed + now.failed,
                      stats.whatsappYes + now.whatsappYes,
                      stats.whatsappNo + now.whatsappNo)

getStatistics(l, rs) ==
  CASE l \in {"js", "node"} -> getStatisticsJs(rs)
    [] l = "go"             -> GetStatisticsGo(rs)
    [] OTHER                -> getStatisticsCounted(rs)

(***************************************************************************)
(* The browser page: its fields, status line, results panel and checks     *)
(***************************************************************************)
\* Most clicks on the two buttons.
MaxClicks == 2

\* The text of the bulk field, as its lines and the comma-separated parts of
\* each line: nothing, a line without a comma, and two number,country lines.
BulkEmpty   == <<>>
BulkNoComma == << <<"hello">> >>
BulkTwo     == << <<"628138800001", "ID">>, <<"5511999999999", " BR">> >>

BulkTexts == {BulkEmpty, BulkNoComma, BulkTwo}

\* The text of the delay field.
DelayTexts == {"", "0", "500"}

\* A JavaScript number: an integer, or NaN.
Number(nan, value) == [nan |-> nan, value |-> value]

NaN == Number(TRUE, 0)

\* parseInt(text)
parseInt(text) ==
  CASE text = "0"   -> Number(FALSE, 0)
    [] text = "500" -> Number(FALSE, 500)
    [] OTHER        -> NaN

\* The numbers that JavaScript's || passes over: NaN and 0.
Falsy(n) == n.nan \/ n.value = 0

\* parseInt(document.getElementById('delay-input').value) || 1000
BulkDelay(text) ==
  IF Falsy(parseInt(text)) THEN 1000 ELSE parseInt(text).value

\* String.prototype.trim
trim(text) == IF text = " BR" THEN "BR" ELSE text

\* !bulkText.trim()
BulkIsBlank(text) == text = BulkEmpty

\* The loop over the lines: a line of at least two parts gives a request.
RECURSIVE ParseBulk(_)
ParseBulk(lines) ==
  IF lines = <<>> THEN <<>>
  ELSE LET parts == Head(lines)
       IN  (IF Len(parts) >= 2
              THEN << [number |-> trim(parts[1]), country |-> trim(parts[2]),
                       callback |-> Absent] >>
            ELSE <<>>) \o ParseBulk(Tail(lines))

\* What a click handler read from the fields of the page.
FieldsRead(handler, apiKey, number, bulk, delayText) ==
  [ handler |-> handler, apiKey |-> apiKey, number |-> number,
    bulk |-> bulk, delayText |-> delayText ]

NothingRead == FieldsRead("none", "", "", BulkEmpty, "")

SingleReads ==
  { FieldsRead("single", k, n, BulkEmpty, "") :
      k \in {"", "KEY"}, n \in {"", "628138800001"} }

BulkReads ==
  { FieldsRead("bulk", k, "", b, d) :
      k \in {"", "KEY"}, b \in BulkTexts, d \in DelayTexts }

\* A handler that never asks for the API key.
KeyMissingNever(f) == FALSE

\* if (!apiKey)
KeyMissing(f) == f.apiKey = ""

\* The status line: its text and the check that wrote it (0: none).
Status(kind, text, owner) == [kind |-> kind, text |-> text, owner |-> owner]

Ready == Status("info", "Ready to check WhatsApp numbers...", 0)

\* The results panel: whether it is displayed, the check whose result it
\* holds (0: none) and the result.
Panel(shown, owner, line, st, rs) ==
  [ shown |-> shown, owner |-> owner, formatted |-> line, stats |-> st,
    results |-> rs ]

EmptyPanel == Panel(FALSE, 0, NotFormatted, NoStatistics, <<>>)

\* A check that was started: its requests, its delay, the request it is at,
\* the outcomes so far, and where it stands.
Task(kind, data, d, entered, idx, rs, at) ==
  [ kind |-> kind, numbersData |-> data, delay |-> d, entered |-> entered,
    idx |-> idx, results |-> rs, pc |-> at ]

\* The answers the endpoint gives to the page.
UiReplies ==
  { [http |-> HttpOk, body |-> BodyYes],
    [http |-> HttpOk, body |-> BodyNull],
    [http |-> 500, body |-> BodyFail] }

(***************************************************************************)
(* checkMultipleNumbers                                                    *)
(***************************************************************************)
\* Lists of at most n requests.
RECURSIVE ListsUpTo(_)
ListsUpTo(n) ==
  IF n = 0 THEN {<<>>}
  ELSE ListsUpTo(n - 1) \cup
       {Append(l, r) : l \in {x \in ListsUpTo(n - 1) : Len(x) = n - 1}, r \in Requests}

Event(type, idx) == [type |-> type, idx |-> idx]

\* The answers the endpoint may give to the c-th call.
StubReplies(c) ==
  IF stub = "alternate"
    THEN IF c % 2 = 1 THEN {[http |-> HttpOk, body |-> BodyYes]}
                      ELSE {[http |-> HttpOk, body |-> BodyFail]}
  ELSE IF stub = "some"
    THEN {[http |-> HttpOk, body |-> BodyYes],
          [http |-> HttpOk, body |-> BodyHtml],
          [http |-> HttpOk, body |-> BodyNull],
          [http |-> 500, body |-> BodyFail]}
  ELSE Replies

\* A handler that takes nothing: every failure leaves the batch.
CatchesNothing(l, r) == FALSE

\* The batch's handler (catch / if err != nil) takes the failure of a lookup.
Catches(l, r) == r.kind = "throw"

\* A client that goes on without waiting for the lookup.
AwaitsLookupNever(l) == FALSE

\* The client waits for the lookup to end before it goes on
\* (await, .get(), a blocking call).
AwaitsLookup(l) == TRUE

\* The delay is in the try block, after the push of a success (JavaScript,
\* C#, Java), or after the if/else or try/catch (Go, PHP).
DelaysAfterFailure(l) == l \in {"go", "php"}

\* A loop that stays on a request whose lookup failed, to send it again.
NextIndexRetry(k, r) == IF r.kind = "return" THEN k + 1 ELSE k

\* i++ / range / foreach: the loop moves on whatever the lookup's result.
NextIndex(k, r) == k + 1

\* The pseudo answer of a call whose request timeout expired.
TimedOut == [http |-> NoAnswer, body |-> Absent]

\* The client sets a request timeout (axios timeout: 30000, http.Client
\* Timeout, CURLOPT_TIMEOUT, HttpClient.Timeout, --max-time); the browser's
\* fetch is given none.
HasTimeout(l) == l # "js"

\* The exit code of a process that has not ended.
Running == -1

\* The clients whose main() is run.
MainLangs == {"node", "go"}

\* main() has an error handler that ends the process (try/catch with
\* process.exit(1)); Go's main logs the error and goes on.
MainCatches(l) == l = "node"

\* main()'s results summary calls formatResult on the result of every
\* successful outcome (Go: of every one whose Result is not nil); an error
\* it throws leaves the summary.
SummaryThrows(l, rs) ==
  \E k \in 1..Len(rs) :
     rs[k].success /\ formatResult(l, rs[k].result).kind = "throw"

\* The events of runner l's loop from request k to request n, with pacing
\* delay d, when the lookups end as rs says: the call, the push of the
\* outcome, and the delay where the runner's code reaches it.
RECURSIVE BatchEvents(_, _, _, _, _)
BatchEvents(l, n, d, rs, k) ==
  IF k > n THEN <<>>
  ELSE LET waits == /\ d > 0
                    /\ k < n
                    /\ (rs[k].kind = "return" \/ DelaysAfterFailure(l))
       IN  <<Event("call", k), Event("record", k)>>
             \o (IF waits THEN <<Event("wait", k)>> ELSE <<>>)
             \o BatchEvents(l, n, d, rs, k + 1)

\* The outcome list the loop builds when the lookups end as rs says.
BatchOutcomes(data, rs) ==
  [k \in 1..Len(data) |->
     IF rs[k].kind = "return" THEN SuccessOutcome(data[k], rs[k].resp)
     ELSE FailureOutcome(data[k], rs[k].err)]

\* if (delay > 0 && i < numbersData.length - 1), where the code reaches it.
ShouldSleep(l, r) ==
  /\ delay > 0
  /\ i < Len(numbersData)
  /\ (r.kind = "return" \/ DelaysAfterFailure(l))

Init ==
  /\ \/ /\ lang \in Langs
        /\ mode = "batch"
        /\ stub = "any"
        /\ numbersData \in ListsUpTo(MaxBatch)
        /\ delay \in {0, DefaultDelay}
        /\ inMain = FALSE
     \/ /\ lang \in Langs
        /\ mode = "batch"
        /\ stub = "alternate"
        /\ numbersData = numbersToCheck
        /\ delay \in {0, DefaultDelay}
        /\ inMain = FALSE
     \/ /\ lang \in Langs \cup {ShellLang}
        /\ mode = "single"
        /\ stub = "any"
        /\ numbersData \in {<<r>> : r \in Requests \cup OddRequests}
        /\ delay = 0
        /\ inMain = FALSE
     \/ /\ lang \in MainLangs
        /\ mode = "single"
        /\ stub = "any"
        /\ numbersData = <<numbersToCheck[1]>>
        /\ delay = 0
        /\ inMain = TRUE
  /\ pc = "loop"
  /\ i = 1
  /\ results = <<>>
  /\ sent = <<>>
  /\ inflight = 0
  /\ rets = <<>>
  /\ answers = <<>>
  /\ events = <<>>
  /\ stats = NoStatistics
  /\ formatted = NotFormatted
  /\ single = NotCalled
  /\ exitCode = Running
  /\ statCalls = 0
  /\ counters = NoCounters
  /\ arithExits = FALSE
  /\ read = NothingRead
  /\ clicks = <<>>
  /\ tasks = <<>>
  /\ statusLine = Ready
  /\ panel = EmptyPanel

\* checkNumber up to the POST: the form is built and sent.
Call ==
  /\ \/ pc = "loop"
     \/ pc = "await" /\ ~AwaitsLookup(lang)
  /\ i <= Len(numbersData)
  /\ PassesValidation(lang, numbersData[i])
  /\ sent' = Append(sent, BuildPayload(lang, numbersData[i]))
  /\ inflight' = inflight + 1
  /\ events' = Append(events, Event("call", i))
  /\ pc' = "await"
  /\ UNCHANGED <<lang, mode, stub, numbersData, delay, i, results, rets,
                 answers, stats>>
  /\ UNCHANGED processVars
  /\ UNCHANGED statCalls
  /\ UNCHANGED otherVars

\* checkNumber returns on a failed format check, before anything is sent.
Reject ==
  /\ mode = "single"
  /\ pc = "loop"
  /\ i <= Len(numbersData)
  /\ ~PassesValidation(lang, numbersData[i])
  /\ rets' = Append(rets, Throw(Error("Invalid input", NoAnswer, Absent)))
  /\ answers' = Append(answers, NotSent)
  /\ pc' = "done"
  /\ UNCHANGED <<lang, mode, stub, numbersData, delay, i, results, sent,
                 inflight, events, stats>>
  /\ UNCHANGED processVars
  /\ UNCHANGED statCalls
  /\ UNCHANGED otherVars

\* A single checkNumber call ends with the answer reply: its caller gets
\* the value or the error.
SingleComplete(reply) ==
  /\ rets' = Append(rets, checkNumber(lang, reply))
  /\ answers' = Append(answers, reply)
  /\ inflight' = inflight - 1
  /\ pc' = "done"
  /\ UNCHANGED <<lang, mode, stub, numbersData, delay, i, results, sent,
                 events, stats>>
  /\ UNCHANGED processVars
  /\ UNCHANGED statCalls
  /\ UNCHANGED otherVars

\* The endpoint answers a single checkNumber call.
SingleReply ==
  /\ mode = "single"
  /\ pc = "await"
  /\ \E reply \in StubReplies(Len(rets) + 1) : SingleComplete(reply)

\* A lookup of the batch ends with the answer reply: the loop body records
\* the outcome and either starts the delay or moves to the next request; an
\* error the handler does not take leaves checkMultipleNumbers without a
\* result.
BatchComplete(reply) ==
       LET r    == checkNumber(lang, reply)
           data == numbersData[i]
       IN  /\ rets' = Append(rets, r)
           /\ answers' = Append(answers, reply)
           /\ inflight' = inflight - 1
           /\ IF r.kind = "return"
                THEN /\ results' = Append(results, SuccessOutcome(data, r.resp))
                     /\ events' = Append(events, Event("record", i))
              ELSE IF Catches(lang, r)
                THEN /\ results' = Append(results, FailureOutcome(data, r.err))
                     /\ events' = Append(events, Event("record", i))
              ELSE UNCHANGED <<results, events>>
           /\ IF r.kind # "return" /\ ~Catches(lang, r)
                THEN pc' = "aborted" /\ i' = i
              ELSE IF ShouldSleep(lang, r)
                THEN pc' = "sleep" /\ i' = i
              ELSE pc' = "loop" /\ i' = NextIndex(i, r)
           /\ UNCHANGED <<lang, mode, stub, numbersData, delay, sent, stats>>
           /\ UNCHANGED processVars
           /\ UNCHANGED statCalls
           /\ UNCHANGED otherVars
  /\ UNCHANGED statCalls

\* The endpoint answers a lookup of the batch.
BatchReply ==
  /\ mode = "batch"
  /\ pc = "await"
  /\ \E reply \in StubReplies(Len(rets) + 1) : BatchComplete(reply)

\* The request timeout expires before the endpoint answers: the HTTP call
\* fails as a network failure does.  The alternating stub answers at once.
Timeout ==
  /\ pc = "await"
  /\ stub = "any"
  /\ HasTimeout(lang)
  /\ IF mode = "batch" THEN BatchComplete(TimedOut) ELSE SingleComplete(TimedOut)

\* sleep(delay), Task.Delay, time.Sleep, usleep, Thread.sleep.
Sleep ==
  /\ pc = "sleep"
  /\ events' = Append(events, Event("wait", i))
  /\ i' = i + 1
  /\ pc' = "loop"
  /\ UNCHANGED <<lang, mode, stub, numbersData, delay, results, sent,
                 inflight, rets, answers, stats>>
  /\ UNCHANGED processVars
  /\ UNCHANGED statCalls
  /\ UNCHANGED otherVars

\* The loop ends: return results.
ReturnResults ==
  /\ mode = "batch"
  /\ pc = "loop"
  /\ i > Len(numbersData)
  /\ pc' = "done"
  /\ UNCHANGED <<lang, mode, stub, numbersData, delay, i, results, sent,
                 inflight, rets, answers, events, stats>>
  /\ UNCHANGED processVars
  /\ UNCHANGED statCalls
  /\ UNCHANGED otherVars

\* The caller passes the returned list to getStatistics; a caller other
\* than main() may do so again.
GetStatistics ==
  /\ mode = "batch"
  /\ \/ pc = "done" /\ ~(inMain /\ SummaryThrows(lang, results))
     \/ pc = "reported" /\ ~inMain /\ statCalls < MaxStatCalls
  /\ stats' = getStatistics(lang, results)
  /\ statCalls' = statCalls + 1
  /\ pc' = "reported"
  /\ UNCHANGED <<lang, mode, stub, numbersData, delay, i, results, sent,
                 inflight, rets, answers, events>>
  /\ UNCHANGED processVars
  /\ UNCHANGED otherVars

\* The caller of a single lookup formats the response it got:
\* formatResult(result).
FormatResult ==
  /\ mode = "single"
  /\ pc = "done"
  /\ rets[1].kind = "return"
  /\ formatted' = formatResult(lang, rets[1].resp)
  /\ pc' = "formatted"
  /\ UNCHANGED <<lang, mode, stub, numbersData, delay, i, results, sent,
                 inflight, rets, answers, events, stats, inMain, single,
                 exitCode, statCalls>>
  /\ UNCHANGED otherVars

\* main() is past the single check, through the else branch or the log of
\* the error, and calls checkMultipleNumbers(numbersToCheck, 1000).
MainBatch ==
  /\ inMain
  /\ mode = "single"
  /\ \/ pc = "formatted" /\ formatted.kind = "line"
     \/ pc = "done" /\ rets[1].kind # "return" /\ ~MainCatches(lang)
  /\ single' = rets[1]
  /\ mode' = "batch"
  /\ stub' = "some"
  /\ numbersData' = numbersToCheck
  /\ delay' = DefaultDelay
  /\ i' = 1
  /\ pc' = "loop"
  /\ results' = <<>>
  /\ sent' = <<>>
  /\ rets' = <<>>
  /\ answers' = <<>>
  /\ events' = <<>>
  /\ UNCHANGED <<lang, inflight, stats, formatted, inMain, exitCode,
                 statCalls>>
  /\ UNCHANGED otherVars

\* main()'s catch block: console.error and process.exit(1).
MainCatch ==
  /\ inMain
  /\ MainCatches(lang)
  /\ \/ mode = "single" /\ pc = "done" /\ rets[1].kind # "return"
     \/ mode = "single" /\ pc = "formatted" /\ formatted.kind = "throw"
     \/ mode = "batch" /\ pc = "done" /\ SummaryThrows(lang, results)
     \/ mode = "batch" /\ pc = "reported" /\ stats.threw
  /\ single' = IF mode = "single" THEN rets[1] ELSE single
  /\ exitCode' = 1
  /\ pc' = "exited"
  /\ UNCHANGED <<lang, mode, stub, numbersData, delay, i, results, sent,
                 inflight, rets, answers, events, stats, formatted, inMain,
                 statCalls>>
  /\ UNCHANGED otherVars

\* main() prints the statistics and returns: the process ends with code 0.
MainReturn ==
  /\ inMain
  /\ mode = "batch"
  /\ pc = "reported"
  /\ ~(MainCatches(lang) /\ stats.threw)
  /\ exitCode' = 0
  /\ pc' = "exited"
  /\ UNCHANGED <<lang, mode, stub, numbersData, delay, i, results, sent,
                 inflight, rets, answers, events, stats, formatted, inMain,
                 single, statCalls>>
  /\ UNCHANGED otherVars

Next ==
  \/ Call
  \/ Reject
  \/ SingleReply
  \/ BatchReply
  \/ Timeout
  \/ Sleep
  \/ ReturnResults
  \/ GetStatistics
  \/ FormatResult
  \/ MainBatch
  \/ MainCatch
  \/ MainReturn

Spec == Init /\ [][Next]_vars

\* The client's own steps always happen in the end, and so does the expiry
\* of a timeout that was set; the endpoint is free never to answer.
Fairness ==
  /\ WF_vars(Call)
  /\ WF_vars(Reject)
  /\ WF_vars(Timeout)
  /\ WF_vars(Sleep)
  /\ WF_vars(ReturnResults)
  /\ WF_vars(GetStatistics)
  /\ WF_vars(FormatResult)
  /\ WF_vars(MainBatch)
  /\ WF_vars(MainCatch)
  /\ WF_vars(MainReturn)

FairSpec == Spec /\ Fairness

(***************************************************************************)
(* The shell script: check_multiple_from_file under set -euo pipefail      *)
(***************************************************************************)
\* Most lines of the input file.
MaxLines == 3

\* What read -r number country callback gives for a line of the file: a
\* request, a request the format check turns down, an empty line and a
\* comment.
FileLines ==
  { [number |-> "628138800001", country |-> "ID", callback |-> ""],
    [number |-> "12345",        country |-> "ID", callback |-> ""],
    [number |-> "",             country |-> "",   callback |-> ""],
    [number |-> "# numbers",    country |-> "",   callback |-> ""] }

\* The files of at most n lines.
RECURSIVE FilesUpTo(_)
FilesUpTo(n) ==
  IF n = 0 THEN {<<>>}
  ELSE FilesUpTo(n - 1) \cup
       {Append(f, l) : f \in {x \in FilesUpTo(n - 1) : Len(x) = n - 1},
                       l \in FileLines}

\* wc -l counts the newline characters: a last line that does not end in
\* one is not counted.
WcLines(file, endsInNewline) ==
  IF endsInNewline THEN Len(file) ELSE Len(file) - 1

\* [[ -z "$number" || "$number" =~ ^[[:space:]]*# ]]
IsSkipped(line) == line.number = "" \/ line.number = "# numbers"

Counters(total, success, error, yes, no) ==
  [ total_lines |-> total, success_count |-> success, error_count |-> error,
    whatsapp_yes |-> yes, whatsapp_no |-> no ]

\* What $(check_number ...) captures: the line log_info writes to the
\* standard output, then the body.
CapturedOutput(reply) == <<"[INFO] Checking number", reply.body>>

\* jq reads its input as JSON.
JqParses(lines) ==
  Len(lines) = 1 /\ JsonParse(lines[1]).kind \notin {"invalid", "text", "none"}

\* ((n++)) has the value n: under set -e a shell that applies errexit to
\* (( )) ends when n is 0 (bash 4.1 and later; bash 4.0 goes on).
IncrementExits(n) == arithExits /\ n = 0

\* The shell ends with the status of the command that failed.
ShellExit(code) ==
  /\ pc' = "exited"
  /\ exitCode' = code

\* if [ "$delay" -gt 0 ] && [ $line_num -lt $total_lines ]; then sleep
AfterLine ==
  pc' = IF delay > 0 /\ i < counters.total_lines THEN "sleep" ELSE "loop"

ShellInit ==
  /\ lang = ShellLang
  /\ mode = "file"
  /\ stub = "some"
  /\ numbersData \in FilesUpTo(MaxLines)
  /\ \E endsInNewline \in BOOLEAN :
        /\ ~endsInNewline =>
              Len(numbersData) > 0 /\ numbersData[Len(numbersData)].number # ""
        /\ counters = Counters(WcLines(numbersData, endsInNewline), 0, 0, 0, 0)
  /\ arithExits \in BOOLEAN
  /\ delay \in {0, 1}
  /\ pc = "loop"
  /\ i = 0
  /\ results = <<>>
  /\ sent = <<>>
  /\ inflight = 0
  /\ rets = <<>>
  /\ answers = <<>>
  /\ events = <<>>
  /\ stats = NoStatistics
  /\ formatted = NotFormatted
  /\ inMain = FALSE
  /\ single = NotCalled
  /\ exitCode = Running
  /\ statCalls = 0
  /\ read = NothingRead
  /\ clicks = <<>>
  /\ tasks = <<>>
  /\ statusLine = Ready
  /\ panel = EmptyPanel

\* while read ...; ((line_num++)); the test for lines to skip, continue.
ReadLine ==
  /\ mode = "file"
  /\ pc = "loop"
  /\ i < Len(numbersData)
  /\ i' = i + 1
  /\ IF IncrementExits(i)
       THEN ShellExit(1)
     ELSE /\ pc' = IF IsSkipped(numbersData[i + 1]) THEN "loop" ELSE "line"
          /\ UNCHANGED exitCode
  /\ UNCHANGED <<lang, mode, stub, numbersData, delay, results, sent,
                 inflight, rets, answers, events, stats, formatted, inMain,
                 single, statCalls, counters, arithExits>>
  /\ UNCHANGED uiVars

\* check_number passes the format checks and posts the form.
ShellCall ==
  /\ mode = "file"
  /\ pc = "line"
  /\ PassesValidation(lang, numbersData[i])
  /\ sent' = Append(sent, BuildPayload(lang, numbersData[i]))
  /\ inflight' = inflight + 1
  /\ events' = Append(events, Event("call", i))
  /\ pc' = "await"
  /\ UNCHANGED <<lang, mode, stub, numbersData, delay, i, results, rets,
                 answers, stats, formatted, inMain, single, exitCode,
                 statCalls, counters, arithExits>>
  /\ UNCHANGED uiVars

\* The else branch of if check_result=$(check_number ...): ((error_count++)),
\* then the delay test.
ErrorBranch ==
  /\ counters' = [counters EXCEPT !.error_count = @ + 1]
  /\ IF IncrementExits(counters.error_count)
       THEN ShellExit(1)
     ELSE AfterLine /\ UNCHANGED exitCode

\* check_number returns 1 on a failed format check, before anything is
\* sent.
ShellReject ==
  /\ mode = "file"
  /\ pc = "line"
  /\ ~PassesValidation(lang, numbersData[i])
  /\ events' = Append(events, Event("call", i))
  /\ rets' = Append(rets, Throw(Error("Invalid input", NoAnswer, Absent)))
  /\ answers' = Append(answers, NotSent)
  /\ ErrorBranch
  /\ UNCHANGED <<lang, mode, stub, numbersData, delay, i, results, sent,
                 inflight, stats, formatted, inMain, single, statCalls,
                 arithExits>>
  /\ UNCHANGED uiVars

\* curl ends.  On status 200: format_result, ((success_count++)), jq on the
\* captured output for the whatsapp value, the case with its counters, then
\* the delay test; otherwise the else branch.
ShellReply ==
  /\ mode = "file"
  /\ pc = "await"
  /\ \E reply \in StubReplies(Len(rets) + 1) :
       LET r        == check_number(reply)
           whatsapp == JsonParse(reply.body).whatsapp
       IN  /\ rets' = Append(rets, r)
           /\ answers' = Append(answers, reply)
           /\ inflight' = inflight - 1
           /\ IF r.kind # "return"
                THEN ErrorBranch
              ELSE IF IncrementExits(counters.success_count)
                THEN /\ counters' = [counters EXCEPT !.success_count = @ + 1]
                     /\ ShellExit(1)
              ELSE IF ~JqParses(CapturedOutput(reply))
                THEN /\ counters' = [counters EXCEPT !.success_count = @ + 1]
                     /\ ShellExit(2)
              ELSE IF whatsapp = "yes"
                THEN /\ counters' = [counters EXCEPT !.success_count = @ + 1,
                                                     !.whatsapp_yes = @ + 1]
                     /\ IF IncrementExits(counters.whatsapp_yes)
                          THEN ShellExit(1)
                        ELSE AfterLine /\ UNCHANGED exitCode
              ELSE IF whatsapp = "no"
                THEN /\ counters' = [counters EXCEPT !.success_count = @ + 1,
                                                     !.whatsapp_no = @ + 1]
                     /\ IF IncrementExits(counters.whatsapp_no)
                          THEN ShellExit(1)
                        ELSE AfterLine /\ UNCHANGED exitCode
              ELSE /\ counters' = [counters EXCEPT !.success_count = @ + 1]
                   /\ AfterLine
                   /\ UNCHANGED exitCode
  /\ UNCHANGED <<lang, mode, stub, numbersData, delay, i, results, sent,
                 events, stats, formatted, inMain, single, statCalls,
                 arithExits>>
  /\ UNCHANGED uiVars

\* sleep "$delay"
ShellSleep ==
  /\ mode = "file"
  /\ pc = "sleep"
  /\ events' = Append(events, Event("wait", i))
  /\ pc' = "loop"
  /\ UNCHANGED <<lang, mode, stub, numbersData, delay, i, results, sent,
                 inflight, rets, answers, stats, formatted, inMain, single,
                 exitCode, statCalls, counters, arithExits>>
  /\ UNCHANGED uiVars

\* The loop is over: the statistics block is printed and the script ends.
ShellReport ==
  /\ mode = "file"
  /\ pc = "loop"
  /\ i >= Len(numbersData)
  /\ stats' = Statistics(FALSE, counters.total_lines, counters.success_count,
                         counters.error_count, counters.whatsapp_yes,
                         counters.whatsapp_no)
  /\ pc' = "reported"
  /\ exitCode' = 0
  /\ UNCHANGED <<lang, mode, stub, numbersData, delay, i, results, sent,
                 inflight, rets, answers, events, formatted, inMain, single,
                 statCalls, counters, arithExits>>
  /\ UNCHANGED uiVars

ShellNext ==
  \/ ReadLine
  \/ ShellCall
  \/ ShellReject
  \/ ShellReply
  \/ ShellSleep
  \/ ShellReport

ShellSpec == ShellInit /\ [][ShellNext]_vars

(***************************************************************************)
(* The Java batch runner with interrupts of its worker thread              *)
(***************************************************************************)
\* The worker thread is interrupted while it is in Thread.sleep: the
\* InterruptedException leaves the try block and the catch block adds a
\* failure outcome for the request of this round of the loop.
InterruptSleep ==
  /\ lang = "java"
  /\ mode = "batch"
  /\ pc = "sleep"
  /\ results' = Append(results,
                  FailureOutcome(numbersData[i],
                                 Error("sleep interrupted", NoAnswer, Absent)))
  /\ events' = Append(events, Event("record", i))
  /\ i' = i + 1
  /\ pc' = "loop"
  /\ UNCHANGED <<lang, mode, stub, numbersData, delay, sent, inflight, rets,
                 answers, stats>>
  /\ UNCHANGED processVars
  /\ UNCHANGED statCalls
  /\ UNCHANGED otherVars

JavaInit == Init /\ lang = "java" /\ mode = "batch"

JavaNext ==
  \/ Call
  \/ BatchReply
  \/ Timeout
  \/ Sleep
  \/ InterruptSleep
  \/ ReturnResults
  \/ GetStatistics

JavaSpec == JavaInit /\ [][JavaNext]_vars

(***************************************************************************)
(* The browser page: checkSingleNumber and checkBulkNumbers                *)
(***************************************************************************)
UiInit ==
  /\ lang = "js"
  /\ mode = "ui"
  /\ stub = "some"
  /\ numbersData = <<>>
  /\ delay = 0
  /\ pc = "page"
  /\ i = 1
  /\ results = <<>>
  /\ sent = <<>>
  /\ inflight = 0
  /\ rets = <<>>
  /\ answers = <<>>
  /\ events = <<>>
  /\ stats = NoStatistics
  /\ formatted = NotFormatted
  /\ inMain = FALSE
  /\ single = NotCalled
  /\ exitCode = Running
  /\ statCalls = 0
  /\ counters = NoCounters
  /\ arithExits = FALSE
  /\ read = NothingRead
  /\ clicks = <<>>
  /\ tasks = <<>>
  /\ statusLine = Ready
  /\ panel = EmptyPanel

\* What the page's handlers leave alone.
pageFrame ==
  <<lang, mode, stub, numbersData, delay, pc, i, results, inflight, rets,
    answers, events, stats, formatted, inMain, single, exitCode, statCalls,
    counters, arithExits>>

\* A handler returns after it wrote an error to the status line.
Refuse(text) ==
  /\ statusLine' = Status("error", text, 0)
  /\ clicks' = Append(clicks, "refused")
  /\ UNCHANGED <<sent, tasks, panel>>

\* A handler starts its check: the status line says so, the panel is
\* hidden, and the first request is posted.
Start(task, text) ==
  /\ statusLine' = Status("info", text, Len(tasks) + 1)
  /\ panel' = [panel EXCEPT !.shown = FALSE]
  /\ sent' = Append(sent, BuildPayload("js", task.numbersData[1]))
  /\ tasks' = Append(tasks, task)
  /\ clicks' = Append(clicks, "started")

\* checkSingleNumber()
ClickSingle ==
  /\ mode = "ui"
  /\ Len(clicks) < MaxClicks
  /\ \E f \in SingleReads :
       /\ read' = f
       /\ IF KeyMissing(f)
            THEN Refuse("Please enter your API key")
          ELSE IF f.number = ""
            THEN Refuse("Please enter a phone number")
          ELSE Start(Task("single",
                          << [number |-> f.number, country |-> "ID",
                              callback |-> Absent] >>,
                          0, "", 1, <<>>, "await"),
                     "Checking number...")
  /\ UNCHANGED pageFrame

\* checkBulkNumbers()
ClickBulk ==
  /\ mode = "ui"
  /\ Len(clicks) < MaxClicks
  /\ \E f \in BulkReads :
       /\ read' = f
       /\ IF KeyMissing(f)
            THEN Refuse("Please enter your API key")
          ELSE IF BulkIsBlank(f.bulk)
            THEN Refuse("Please enter phone numbers")
          ELSE IF ParseBulk(f.bulk) = <<>>
            THEN Refuse("No valid number,country pairs found")
          ELSE Start(Task("bulk", ParseBulk(f.bulk), BulkDelay(f.delayText),
                          f.delayText, 1, <<>>, "await"),
                     "Checking numbers...")
  /\ UNCHANGED pageFrame

\* The check t ends: the handler's code after its await, up to its end or
\* to its catch block.
Finish(t, task, ok, line, st) ==
  /\ tasks' = [tasks EXCEPT ![t] = [task EXCEPT !.pc = "finished"]]
  /\ IF ok
       THEN /\ statusLine' = Status("done",
                                    IF task.kind = "single"
                                      THEN "Check completed!"
                                    ELSE "Bulk check completed!", t)
            /\ panel' = Panel(TRUE, t, line, st, task.results)
     ELSE /\ statusLine' = Status("error", "Error", t)
          /\ UNCHANGED panel
  /\ UNCHANGED sent

\* The endpoint answers the request check t waits for.
UiReply ==
  /\ mode = "ui"
  /\ \E t \in 1..Len(tasks), reply \in UiReplies :
       LET task == tasks[t]
           data == task.numbersData[task.idx]
           r    == checkNumberBrowser(reply)
           rs   == Append(task.results,
                          IF r.kind = "return"
                            THEN SuccessOutcome(data, r.resp)
                          ELSE FailureOutcome(data, r.err))
           next == [task EXCEPT !.results = rs]
       IN  /\ task.pc = "await"
           /\ IF task.kind = "single"
                THEN Finish(t, task,
                            r.kind = "return"
                              /\ formatResultJs(r.resp).kind = "line",
                            formatResultJs(r.resp), NoStatistics)
              ELSE IF task.idx = Len(task.numbersData)
                THEN Finish(t, next, ~getStatisticsJs(rs).threw,
                            NotFormatted, getStatisticsJs(rs))
              ELSE IF r.kind = "return" /\ task.delay > 0
                THEN /\ tasks' = [tasks EXCEPT ![t] = [next EXCEPT !.pc = "sleep"]]
                     /\ UNCHANGED <<sent, statusLine, panel>>
              ELSE /\ tasks' = [tasks EXCEPT ![t] = [next EXCEPT !.idx = @ + 1]]
                   /\ sent' = Append(sent,
                                BuildPayload("js", task.numbersData[task.idx + 1]))
                   /\ UNCHANGED <<statusLine, panel>>
  /\ UNCHANGED <<read, clicks>>
  /\ UNCHANGED pageFrame

\* The delay of check t is over: the next request is posted.
UiWake ==
  /\ mode = "ui"
  /\ \E t \in 1..Len(tasks) :
       LET task == tasks[t]
       IN  /\ task.pc = "sleep"
           /\ tasks' = [tasks EXCEPT ![t] =
                          [task EXCEPT !.idx = @ + 1, !.pc = "await"]]
           /\ sent' = Append(sent,
                        BuildPayload("js", task.numbersData[task.idx + 1]))
  /\ UNCHANGED <<read, clicks, statusLine, panel>>
  /\ UNCHANGED pageFrame

UiNext ==
  \/ ClickSingle
  \/ ClickBulk
  \/ UiReply
  \/ UiWake

UiSpec == UiInit /\ [][UiNext]_vars

(***************************************************************************)
(* Properties                                                              *)
(***************************************************************************)
Ended == pc \in {"done", "reported", "aborted"}

StatusValues == {"OK", "FAIL", "INVALID_INPUT", "RETRY_LATER"}

NumWaits == Cardinality({p \in 1..Len(events) : events[p].type = "wait"})

Occurred(e) == \E p \in 1..Len(events) : events[p] = e

\* C1: a batch over N requests returns exactly N outcomes, and the i-th
\* outcome's input is the i-th request, whatever the lookups' results.
C1_OneOutcomePerRequest ==
  (mode = "batch" /\ lang \in {"js", "node", "go", "php"} /\ Ended) =>
     /\ pc # "aborted"
     /\ Len(results) = Len(numbersData)
     /\ \A k \in 1..Len(results) : results[k].input = numbersData[k]

\* C2: when the lookup at position k fails, a failure outcome is recorded at
\* position k and the lookups of all later positions are still invoked: the
\* batch is never aborted (JavaScript and C# runners).
C2_FailureDoesNotAbort ==
  (mode = "batch" /\ lang \in {"js", "node", "cs"}) =>
     /\ pc # "aborted"
     /\ \A k \in 1..Len(rets) : rets[k].kind # "return" =>
          /\ k <= Len(results)
          /\ ~results[k].success
          /\ results[k].input = numbersData[k]
          /\ Ended => \A j \in (k + 1)..Len(numbersData) : Occurred(Event("call", j))

\* C2 witness: a batch of two ended after its first lookup failed.
C2_Witness ==
  /\ mode = "batch" /\ lang \in {"node", "cs"} /\ pc = "done"
  /\ Len(numbersData) = 2
  /\ rets[1].kind = "throw"
  /\ Occurred(Event("call", 2))

\* C3: with delay > 0, a delay wait occurs between every two consecutive
\* lookup calls, whatever the earlier call's result, and none after the last:
\* N-1 waits for N >= 1 requests (JavaScript and C# runners).
C3_DelayBetweenCalls ==
  (mode = "batch" /\ lang \in {"js", "node", "cs"} /\ delay > 0 /\ pc = "done"
     /\ Len(numbersData) >= 1) =>
     /\ NumWaits = Len(numbersData) - 1
     /\ \A k \in 1..(Len(numbersData) - 1) : Occurred(Event("wait", k))
     /\ ~Occurred(Event("wait", Len(numbersData)))

\* C4: on every list the batch runner returns, getStatistics returns
\* total = length of the list, successful + failed = total and
\* whatsappYes + whatsappNo <= successful.
C4_StatisticsAddUp ==
  (pc = "reported" /\ lang \in {"js", "node", "go"}) =>
     /\ ~stats.threw
     /\ stats.total = Len(results)
     /\ stats.successful + stats.failed = stats.total
     /\ stats.whatsappYes + stats.whatsappNo <= stats.successful

C6_ReturnsEnumeratedStatus ==
  \A k \in 1..Len(rets) : rets[k].kind = "return" =>
     rets[k].resp.kind = "object" /\ rets[k].resp.status \in StatusValues

\* C7: every recorded outcome holds exactly one of a response (success,
\* response present and not null, no error message) or an error message
\* (no success, no response).
C7_ResponseOrError ==
  (mode = "batch" /\ lang \in {"js", "cs", "java"}) =>
     \A k \in 1..Len(results) :
        \/ /\ results[k].success
           /\ results[k].result.kind = "object"
           /\ results[k].error = NoError
        \/ /\ ~results[k].success
           /\ results[k].result.kind = "none"
           /\ results[k].error # NoError

\* C8: within a batch at most one lookup is in flight, and the lookup for
\* request i+1 is issued only after the outcome of request i is recorded.
C8_OneLookupInFlight ==
  /\ inflight <= 1
  /\ \A p \in 1..Len(events) :
        (events[p].type = "call" /\ events[p].idx > 1) =>
           \E q \in 1..(p - 1) : events[q] = Event("record", events[p].idx - 1)
  /\ \A p, q \in 1..Len(events) :
        (events[p].type = "call" /\ events[q].type = "call" /\ p < q) =>
           events[p].idx < events[q].idx

\* C8 witness: the second lookup of a batch is in flight.
C8_Witness ==
  /\ mode = "batch" /\ lang \in {"node", "java"}
  /\ pc = "await" /\ i = 2 /\ inflight = 1 /\ Len(results) = 1

\* C9: getStatistics counts in whatsappYes exactly the successful outcomes
\* whose message.whatsapp is "yes", in whatsappNo exactly those whose
\* message.whatsapp is "no"; successes without a message or with another
\* value, and failures, are counted in neither.
C9_CountsYesAndNo ==
  (pc = "reported" /\ lang \in {"js", "node", "php", "cs"}) =>
     /\ ~stats.threw
     /\ stats.whatsappYes = Cardinality({k \in 1..Len(results) :
           results[k].success /\ results[k].result.hasMessage
             /\ results[k].result.whatsapp = "yes"})
     /\ stats.whatsappNo = Cardinality({k \in 1..Len(results) :
           results[k].success /\ results[k].result.hasMessage
             /\ results[k].result.whatsapp = "no"})

\* C10: the callback field is in the posted payload if and only if a
\* non-empty callback was supplied, in the single lookup and in every item
\* of a batch.
C10_CallbackIffSupplied ==
  \A k \in 1..Len(sent) :
     sent[k].hasCallback <=>
        (numbersData[k].callback # Absent /\ numbersData[k].callback # "")

\* C11: the country field of every outgoing request is the upper-cased
\* input country ("id" is sent as "ID"), in the single lookup and in every
\* item of a batch.
C11_CountryUpperCased ==
  \A k \in 1..Len(sent) :
     LET given == numbersData[k].country
         out   == sent[k].country
     IN  /\ given \in {"id", "ID"} => out = "ID"
         /\ given \in {"br", "BR"} => out = "BR"
         /\ given \in {"mx", "MX"} => out = "MX"
         /\ given \in {"in", "IN"} => out = "IN"
         /\ given = "zz" => out = "ZZ"

\* C11 witness: the second item of a batch was sent with "MX" for "mx".
C11_Witness ==
  /\ mode = "batch" /\ lang \in {"js", "node", "go"}
  /\ Len(sent) = 2
  /\ numbersData[2].country = "mx" /\ sent[2].country = "MX"

\* How the client fails on a network failure or a status 500.
TransportTexts(l) ==
  { checkNumber(l, r).err.text :
      r \in {x \in Replies : x.http = NoAnswer \/ x.http = 500} }

\* C12: for every HTTP status in 200..299 the lookup decodes the body and
\* returns it; it fails with a transport error only when the status is
\* outside 200..299 or the network call fails (Go, Java, PHP).
C12_Every2xxIsDecoded ==
  lang \in {"go", "java", "php"} =>
     \A k \in 1..Len(rets) :
        /\ (Is2xx(answers[k].http) /\ JsonParse(answers[k].body).kind = "object")
              => rets[k].kind = "return"
        /\ (rets[k].kind = "throw" /\ rets[k].err.text \in TransportTexts(lang))
              => ~Is2xx(answers[k].http)

\* C13: on a non-2xx HTTP status the lookup fails with an error that carries
\* the status code and the raw response body (JavaScript, C#).
C13_ErrorCarriesStatusAndBody ==
  lang \in {"js", "node", "cs"} =>
     \A k \in 1..Len(rets) :
        (answers[k].http > 0 /\ ~Is2xx(answers[k].http)) =>
           /\ rets[k].kind = "throw"
           /\ rets[k].err.code = answers[k].http
           /\ rets[k].err.body = answers[k].body

\* C14: a status 200 whose body is not valid JSON makes the lookup fail with
\* a decode error that differs from the transport errors; it is never
\* reported as a successful lookup (Go, shell, browser).
C14_InvalidJsonIsDecodeError ==
  lang \in {"go", ShellLang, "js"} =>
     \A k \in 1..Len(rets) :
        (answers[k].http = HttpOk /\ JsonParse(answers[k].body).kind = "invalid") =>
           /\ rets[k].kind = "throw"
           /\ rets[k].err.text \notin TransportTexts(lang)

\* C16: each lookup posts once and a failed lookup is never sent again: a
\* batch of N requests makes exactly N attempts, one per request, whatever
\* the results (JavaScript, Go).
C16_OneAttemptPerRequest ==
  (mode = "batch" /\ lang \in {"js", "node", "go"}) =>
     /\ \A j \in 1..Len(numbersData) :
           Cardinality({p \in 1..Len(events) : events[p] = Event("call", j)}) <= 1
     /\ Len(sent) <= Len(numbersData)
     /\ pc \in {"done", "reported"} =>
           /\ Len(sent) = Len(numbersData)
           /\ \A j \in 1..Len(numbersData) :
                 /\ Occurred(Event("call", j))
                 /\ sent[j].number = numbersData[j].number

\* C16 witness: a batch of two ended with two attempts though the first
\* lookup failed.
C16_Witness ==
  /\ mode = "batch" /\ lang \in {"node", "go"} /\ pc = "done"
  /\ Len(numbersData) = 2 /\ Len(sent) = 2
  /\ rets[1].kind = "throw"

\* C18: the lookup sends a request for every number and country it is
\* given; the local format checks never keep the request from being sent.
C18_AlwaysSends ==
  (mode = "single" /\ lang \in {ShellLang, "node", "js"} /\ pc = "done") =>
     Len(sent) = 1

\* C15: every lookup call completes in the end: when the endpoint never
\* answers, the call fails once the request timeout expires, so a batch
\* over a finite list ends (browser, Node, Go).
C15_EveryLookupCompletes ==
  (lang \in {"js", "node", "go"} /\ pc = "await") ~> (pc # "await")

\* C17: in main(), when the single check fails with an error the process
\* ends with a non-zero exit code; the exit code is 0 only when the single
\* check did not fail (Node, Go).
C17_FailedSingleCheckExitsNonZero ==
  (inMain /\ pc = "exited") =>
     /\ single.kind # "return" => exitCode # 0
     /\ exitCode = 0 => single.kind = "return"

\* C19: formatResult of a response of status OK without a message gives
\* "Number: Unknown, WhatsApp: Unknown, Transaction ID: <id>" and does not
\* throw (JavaScript, Go, PHP).
C19_NoMessageRendersUnknown ==
  (lang \in {"js", "node", "go", "php"} /\ mode = "single" /\ pc = "formatted"
     /\ rets[1].resp.status = "OK" /\ ~rets[1].resp.hasMessage) =>
       /\ formatted.kind = "line"
       /\ formatted.text = <<"Number: ", "Unknown", ", WhatsApp: ", "Unknown",
                             ", Transaction ID: ",
                             IF rets[1].resp.transactionId \in {Absent, ""}
                               THEN "N/A" ELSE rets[1].resp.transactionId>>

\* C20: formatResult of a response of status OK whose message carries the
\* number and the whatsapp value gives exactly
\* "Number: <number>, WhatsApp: <whatsapp>, Transaction ID: <transactionId>",
\* with "N/A" in the place of a missing transactionId (JavaScript).
C20_FormatsExactLine ==
  (lang \in {"js", "node"} /\ mode = "single" /\ pc = "formatted"
     /\ rets[1].resp.kind = "object" /\ rets[1].resp.status = "OK"
     /\ rets[1].resp.hasMessage
     /\ rets[1].resp.number # Absent /\ rets[1].resp.whatsapp # Absent) =>
       /\ formatted.kind = "line"
       /\ formatted.json = NoValue
       /\ formatted.text = <<"Number: ", rets[1].resp.number,
                             ", WhatsApp: ", rets[1].resp.whatsapp,
                             ", Transaction ID: ",
                             IF rets[1].resp.transactionId = Absent
                               THEN "N/A" ELSE rets[1].resp.transactionId>>

C20_Witness ==
  /\ lang = "js" /\ mode = "single" /\ pc = "formatted"
  /\ answers[1] = [http |-> HttpOk, body |-> BodyNoTxn]
  /\ formatted.text = <<"Number: ", "+628138800001", ", WhatsApp: ", "yes",
                        ", Transaction ID: ", "N/A">>

C22_SameEventsInEveryRunner ==
  (mode = "batch" /\ lang \in {"js", "go", "php"} /\ delay > 0
     /\ pc \in {"done", "reported"}
     /\ \A k \in 1..Len(rets) : rets[k].kind \in {"return", "throw"}) =>
       \A other \in {"js", "go", "php"} :
          /\ events = BatchEvents(other, Len(numbersData), delay, rets, 1)
          /\ results = BatchOutcomes(numbersData, rets)

\* The positions of the lookup calls in the event sequence.
CallPositions == {p \in 1..Len(events) : events[p].type = "call"}

\* C23: the shell batch runner attempts a lookup for every line of the file
\* that is neither empty nor a comment, in file order, and prints the
\* statistics block afterwards, whether earlier lines succeeded or failed.
C23_ShellProcessesEveryLine ==
  (mode = "file" /\ pc \in {"reported", "exited"}) =>
     /\ pc = "reported"
     /\ \A k \in 1..Len(numbersData) :
           ~IsSkipped(numbersData[k]) => Occurred(Event("call", k))
     /\ \A p, q \in CallPositions : p < q => events[p].idx < events[q].idx

\* C24: the counters the shell batch runner reports satisfy
\* Successful + Failed = Total Lines for every input file.
C24_ShellCountersAddUp ==
  (mode = "file" /\ pc = "reported") =>
     stats.successful + stats.failed = stats.total

\* C25: with delay > 0 the shell batch runner sleeps between every two
\* consecutive lookups and does not sleep after the last lookup.
C25_ShellSleepsBetweenLookups ==
  (mode = "file" /\ delay > 0) =>
     /\ \A p, q \in CallPositions :
           p < q => \E w \in (p + 1)..(q - 1) : events[w].type = "wait"
     /\ pc = "reported" =>
           \A w \in 1..Len(events) :
              events[w].type = "wait" => \E q \in CallPositions : q > w

\* C26: the Java batch runner records exactly one outcome for each request
\* even when its worker thread is interrupted during the delay: an
\* interrupt of Thread.sleep after a successful lookup adds no second
\* outcome for the same request.
C26_OneOutcomeUnderInterrupt ==
  (mode = "batch" /\ lang = "java") =>
     /\ \A k \in 1..Len(numbersData) :
           Cardinality({p \in 1..Len(events) :
                           events[p] = Event("record", k)}) <= 1
     /\ pc \in {"done", "reported"} => Len(results) = Len(numbersData)

\* C30: checkMultipleNumbers never rejects or throws, whatever the lookups'
\* results, so that main() ends with exit code 1 only because of the
\* single check (Node).
C30_BatchNeverFailsMain ==
  /\ (mode = "batch" /\ lang = "node") => pc # "aborted"
  /\ (inMain /\ lang = "node" /\ pc = "exited" /\ exitCode = 1) =>
        mode = "single"

\* Every check that was started has ended.
AllFinished == \A t \in 1..Len(tasks) : tasks[t].pc = "finished"

\* C27: when checks overlap, once all of them have ended the results panel
\* and the status line show the result of the check that was started last,
\* never that of an earlier one.
C27_LatestCheckIsShown ==
  (mode = "ui" /\ tasks # <<>> /\ AllFinished
     /\ clicks[Len(clicks)] = "started") =>
       /\ statusLine.owner = Len(tasks)
       /\ panel.shown => panel.owner = Len(tasks)

\* C28: the delay the bulk check passes to checkMultipleNumbers is the
\* integer typed in the delay field, 0 included; only a field that is empty
\* or not a number gives 1000.
C28_DelayIsTheEnteredInteger ==
  \A t \in 1..Len(tasks) :
     tasks[t].kind = "bulk" =>
        tasks[t].delay = IF tasks[t].entered = "0" THEN 0
                         ELSE IF tasks[t].entered = "500" THEN 500
                         ELSE 1000

\* The inputs the handlers turn down: no API key, no number for the single
\* check, no line of two comma-separated parts for the bulk check.
TurnedDown(f) ==
  \/ f.apiKey = ""
  \/ f.handler = "single" /\ f.number = ""
  \/ f.handler = "bulk"
       /\ \A k \in 1..Len(f.bulk) : Len(f.bulk[k]) < 2

\* C29: the page sends no request when the API key is empty, when the
\* number of the single check is empty, or when the bulk text has no line
\* of two comma-separated parts: the handler writes an error to the status
\* line and leaves the results panel as it was.
C29_NoRequestOnEmptyInput ==
  [][(Len(clicks') = Len(clicks) + 1 /\ TurnedDown(read')) =>
       /\ sent' = sent
       /\ tasks' = tasks
       /\ panel' = panel
       /\ statusLine'.kind = "error" /\ statusLine'.owner = 0]_vars

C29_Witness ==
  /\ mode = "ui" /\ clicks = <<"started", "refused">>
  /\ TurnedDown(read) /\ read.handler = "bulk" /\ read.apiKey = "KEY"
  /\ Len(sent) = 1 /\ panel.shown /\ panel.owner = 1
  /\ statusLine.kind = "error"

====
